---- MODULE Spec2Model ----
(***************************************************************************)
(* Model of .github/scripts/validate_editorconfig.py: the                  *)
(* EditorconfigValidator class and its run() pipeline.                     *)
(*                                                                         *)
(* Text is modelled at character level: a Python str is a sequence of      *)
(* one-character strings, so that strip(), lower(), upper(), startswith,   *)
(* substring search and the regular expressions of the source are computed *)
(* and not assumed.                                                        *)
(***************************************************************************)
EXTENDS Integers, Sequences, FiniteSets, TLC

(***************************************************************************)
(* Bounds of the model.                                                    *)
(***************************************************************************)
\* longest .editorconfig file, in lines
MaxLines == 2
\* longest list of reference URLs
MaxUrls == 2

(***************************************************************************)
(* Characters and str methods.                                             *)
(***************************************************************************)
UpperLetters == <<"A","B","C","D","E","F","G","H","I","J","K","L","M",
                  "N","O","P","Q","R","S","T","U","V","W","X","Y","Z">>

LowerLetters == <<"a","b","c","d","e","f","g","h","i","j","k","l","m",
                  "n","o","p","q","r","s","t","u","v","w","x","y","z">>

Digits == {"0","1","2","3","4","5","6","7","8","9"}

Range(s) == {s[i] : i \in DOMAIN s}

UpperSet == Range(UpperLetters)

LowerSet == Range(LowerLetters)

\* the class [A-Za-z0-9_]
WordChars == UpperSet \cup LowerSet \cup Digits \cup {"_"}

\* the lower-case and the upper-case form of each letter
ToLower == [c \in UpperSet |-> LowerLetters[CHOOSE i \in DOMAIN UpperLetters : UpperLetters[i] = c]]

ToUpper == [c \in LowerSet |-> UpperLetters[CHOOSE i \in DOMAIN LowerLetters : LowerLetters[i] = c]]

\* \s of the regular expressions and the characters str.strip() removes
IsSpace(c) == c \in {" ", "\t"}

IsUpper(c) == c \in UpperSet

IsDigit(c) == c \in Digits

IsWordChar(c) == c \in WordChars

LowerChar(c) == IF c \in UpperSet THEN ToLower[c] ELSE c

UpperChar(c) == IF c \in LowerSet THEN ToUpper[c] ELSE c

\* str.lower()
Lower(s) == [i \in DOMAIN s |-> LowerChar(s[i])]

\* str.upper()
Upper(s) == [i \in DOMAIN s |-> UpperChar(s[i])]

FirstNonSpace(s) ==
    CHOOSE i \in DOMAIN s : ~IsSpace(s[i]) /\ \A j \in 1..(i - 1) : IsSpace(s[j])

LastNonSpace(s) ==
    CHOOSE i \in DOMAIN s : ~IsSpace(s[i]) /\ \A j \in (i + 1)..Len(s) : IsSpace(s[j])

\* str.strip()
Strip(s) ==
    IF \A i \in DOMAIN s : IsSpace(s[i]) THEN <<>>
    ELSE SubSeq(s, FirstNonSpace(s), LastNonSpace(s))

\* str.startswith(p); also re.match of a literal pattern p
StartsWith(s, p) == Len(p) <= Len(s) /\ SubSeq(s, 1, Len(p)) = p

EndsWith(s, p) == Len(p) <= Len(s) /\ SubSeq(s, Len(s) - Len(p) + 1, Len(s)) = p

\* `p in s` for strings; also re.search of an escaped literal
Contains(s, p) ==
    \E i \in 1..(Len(s) - Len(p) + 1) : SubSeq(s, i, i + Len(p) - 1) = p

\* `x in list`
InList(x, list) == \E i \in DOMAIN list : list[i] = x

(***************************************************************************)
(* String literals of the source.                                          *)
(***************************************************************************)
Dotnet == <<"d","o","t","n","e","t">>

Severity == <<"s","e","v","e","r","i","t","y">>

\* "dotnet_diagnostic."
DiagPrefix == Dotnet \o <<"_","d","i","a","g","n","o","s","t","i","c",".">>

\* "dotnet_naming_rule."
NamingPrefix == Dotnet \o <<"_","n","a","m","i","n","g","_","r","u","l","e",".">>

\* ".severity"
SeveritySuffix == <<".">> \o Severity

(***************************************************************************)
(* Dictionaries (the schema is the result of json.load).  A dict is a      *)
(* function from its keys; {} is the empty function.  The JSON member      *)
(* "$ref" is the field ref; its value, a path string, is the sequence of   *)
(* its "/"-separated segments.  A string used as a regular expression is   *)
(* a record: valid says whether re.compile accepts it, lit is the literal  *)
(* text a valid one stands for.                                            *)
(***************************************************************************)
EmptyDict == <<>>

\* dict.get(k, default)
Get(d, k, default) == IF k \in DOMAIN d THEN d[k] ELSE default

\* re.compile(p) does not raise re.error
ReCompiles(p) == p.valid

\* re.compile(p).match(s): the pattern matches s anchored at its start
ReMatch(p, s) == StartsWith(s, p.lit)

(***************************************************************************)
(* Regular expressions of parse_and_validate and validate_key_value.       *)
(***************************************************************************)
\* comment_re = ^\s*[#;]
CommentMatch(s) == \E i \in DOMAIN s :
    /\ s[i] \in {"#", ";"}
    /\ \A j \in 1..(i - 1) : IsSpace(s[j])

\* section_re = ^\s*\[(.+?)\]\s*$
SectionMatch(raw) ==
    LET s == Strip(raw)
    IN  Len(s) >= 3 /\ s[1] = "[" /\ s[Len(s)] = "]"

\* group(1) of section_re
SectionGroup(raw) == LET s == Strip(raw) IN SubSeq(s, 2, Len(s) - 1)

\* position of the first "=" of the line, 0 if none
FirstEq(raw) ==
    IF \E i \in DOMAIN raw : raw[i] = "="
    THEN CHOOSE i \in DOMAIN raw : raw[i] = "=" /\ \A j \in 1..(i - 1) : raw[j] # "="
    ELSE 0

\* keyval_re = ^\s*([^=]+?)\s*=\s*(.*?)\s*$ : [^=]+? needs one character
\* (whitespace will do) before the first "="
KeyvalMatch(raw) == FirstEq(raw) >= 2

\* group(1).strip() of keyval_re
KeyvalKey(raw) == Strip(SubSeq(raw, 1, FirstEq(raw) - 1))

\* group(2).strip() of keyval_re
KeyvalVal(raw) == Strip(SubSeq(raw, FirstEq(raw) + 1, Len(raw)))

\* ^<prefix>([A-Za-z0-9_]+)\.severity$ with re.IGNORECASE
RuleKeyMatch(prefix, key) ==
    /\ Len(key) > Len(prefix) + Len(SeveritySuffix)
    /\ StartsWith(Lower(key), prefix)
    /\ EndsWith(Lower(key), SeveritySuffix)
    /\ \A i \in (Len(prefix) + 1)..(Len(key) - Len(SeveritySuffix)) : IsWordChar(key[i])

\* diag_sev_re.match(key)
DiagSevMatch(key) == RuleKeyMatch(DiagPrefix, key)

\* md.group(1)
DiagSevGroup(key) == SubSeq(key, Len(DiagPrefix) + 1, Len(key) - Len(SeveritySuffix))

\* naming_rule_re.match(key)
NamingRuleMatch(key) == RuleKeyMatch(NamingPrefix, key)

(***************************************************************************)
(* Value Validator.                                                        *)
(***************************************************************************)
\* ref_path.startswith('#/definitions/')
RefIsLocal(ref) == Len(ref) >= 3 /\ ref[1] = "#" /\ ref[2] = "definitions"

\* the $ref resolution shared by validate_value_against_schema and
\* get_validation_error_message
ResolveRef(schema, frag) ==
    IF "ref" \in DOMAIN frag /\ RefIsLocal(frag.ref)
    THEN Get(Get(schema, "definitions", EmptyDict), frag.ref[Len(frag.ref)], EmptyDict)
    ELSE frag

validate_value_against_schema(schema, val, frag) ==
    LET s == ResolveRef(schema, frag)
    IN  IF "enum" \in DOMAIN s THEN InList(val, s.enum)
        ELSE IF "pattern" \in DOMAIN s
             THEN IF ReCompiles(s.pattern) THEN ReMatch(s.pattern, val) ELSE TRUE
             ELSE TRUE

\* a diagnostic message: its wording (kind) and the key and value it quotes
Msg(kind, key, val) == [kind |-> kind, key |-> key, val |-> val]

get_validation_error_message(schema, key, val, frag) ==
    LET s == ResolveRef(schema, frag)
    IN  IF "enum" \in DOMAIN s THEN Msg("Invalid value, allowed values", key, val)
        ELSE IF "pattern" \in DOMAIN s THEN Msg("Value does not match pattern", key, val)
        ELSE Msg("Invalid value", key, val)

(***************************************************************************)
(* Schema Matcher and per-entry validation.  The accumulators of the       *)
(* validator travel in a record acc: parse_errors, errors, warnings,       *)
(* used_rules, plus current_section (the local of parse_and_validate) and  *)
(* entries, the history of the calls of validate_key_value.  parse_errors, *)
(* errors and warnings are lists of <<line number, message>>.              *)
(***************************************************************************)
\* PatternLoop without the break: every matching pattern is consulted
RECURSIVE PatternLoop_NoBreak(_, _, _, _, _, _)
PatternLoop_NoBreak(schema, props, i, key, val, line_num) ==
    IF i > Len(props) THEN <<>>
    ELSE (IF /\ ReCompiles(props[i].pattern) /\ ReMatch(props[i].pattern, key)
             /\ ~validate_value_against_schema(schema, val, props[i].schema)
          THEN <<  <<line_num, get_validation_error_message(schema, key, val, props[i].schema)>>  >>
          ELSE <<>>)
         \o PatternLoop_NoBreak(schema, props, i + 1, key, val, line_num)

\* the body of the for loop of validate_against_patterns from the i-th pattern
\* on: the errors it appends
RECURSIVE PatternLoop(_, _, _, _, _, _)
PatternLoop(schema, props, i, key, val, line_num) ==
    IF i > Len(props) THEN <<>>
    ELSE IF ReCompiles(props[i].pattern) /\ ReMatch(props[i].pattern, key)
         THEN IF ~validate_value_against_schema(schema, val, props[i].schema)
              THEN <<  <<line_num, get_validation_error_message(schema, key, val, props[i].schema)>>  >>
              ELSE <<>>
         ELSE PatternLoop(schema, props, i + 1, key, val, line_num)

validate_against_patterns(acc, schema, key, val, line_num) ==
    LET pattern_props == Get(schema, "patternProperties", <<>>)
    IN  [acc EXCEPT !.errors = @ \o PatternLoop(schema, pattern_props, 1, key, val, line_num)]

\* SeverityRejected with `in` for `not in`
SeverityRejected_Inverted(allowed_severities, val) ==
    /\ allowed_severities # <<>>
    /\ InList(Lower(val), [i \in DOMAIN allowed_severities |-> Lower(allowed_severities[i])])

\* val.lower() not in [s.lower() for s in allowed_severities]
SeverityRejected(allowed_severities, val) ==
    /\ allowed_severities # <<>>
    /\ ~InList(Lower(val), [i \in DOMAIN allowed_severities |-> Lower(allowed_severities[i])])

\* 'dotnet' in key.lower() and 'severity' in key.lower() and not naming_rule_re.match(key)
LooksMalformed(key) ==
    /\ Contains(Lower(key), Dotnet)
    /\ Contains(Lower(key), Severity)
    /\ ~NamingRuleMatch(key)

validate_key_value(acc, schema, key, val, line_num) ==
    LET severity_def == Get(Get(schema, "definitions", EmptyDict), "severity", EmptyDict)
        allowed_severities == Get(severity_def, "enum", <<>>)
        a1 == IF DiagSevMatch(key)
              THEN [acc EXCEPT
                      !.used_rules = @ \cup {Upper(DiagSevGroup(key))},
                      !.errors = IF SeverityRejected(allowed_severities, val)
                                 THEN Append(@, <<line_num, Msg("Invalid severity", key, val)>>)
                                 ELSE @]
              ELSE IF LooksMalformed(key)
                   THEN [acc EXCEPT !.warnings =
                           Append(@, <<line_num, Msg("Possibly malformed analyzer key", key, <<>>)>>)]
                   ELSE acc
        a2 == [a1 EXCEPT !.entries = Append(@,
                 [line |-> line_num, section |-> acc.current_section, key |-> key, val |-> val])]
    IN  validate_against_patterns(a2, schema, key, val, line_num)

(***************************************************************************)
(* Line Parser.                                                            *)
(***************************************************************************)
\* current_section = None
NoSection == [set |-> FALSE, name |-> <<>>]

\* the accumulators after __init__
InitAcc == [parse_errors |-> <<>>, errors |-> <<>>, warnings |-> <<>>,
            used_rules |-> {}, current_section |-> NoSection, entries |-> <<>>]

\* one iteration of the for loop of parse_and_validate
ParseLine(acc, schema, idx, raw) ==
    LET stripped == Strip(raw)
    IN  IF stripped = <<>> \/ CommentMatch(stripped) THEN acc
        ELSE IF SectionMatch(raw)
             THEN [acc EXCEPT !.current_section = [set |-> TRUE, name |-> Strip(SectionGroup(raw))]]
        ELSE IF ~KeyvalMatch(raw)
             THEN [acc EXCEPT !.parse_errors =
                     Append(@, <<idx, Msg("Unrecognized line format", <<>>, stripped)>>)]
        ELSE validate_key_value(acc, schema, KeyvalKey(raw), KeyvalVal(raw), idx)

\* ParseFrom with a break, not a continue, after a parse error
RECURSIVE ParseFrom_StopsAtError(_, _, _, _)
ParseFrom_StopsAtError(acc, schema, lines, idx) ==
    IF idx > Len(lines) THEN acc
    ELSE IF Len(ParseLine(acc, schema, idx, lines[idx]).parse_errors) > Len(acc.parse_errors)
         THEN ParseLine(acc, schema, idx, lines[idx])
         ELSE ParseFrom_StopsAtError(ParseLine(acc, schema, idx, lines[idx]), schema, lines, idx + 1)

\* the for loop of parse_and_validate from line idx on
RECURSIVE ParseFrom(_, _, _, _)
ParseFrom(acc, schema, lines, idx) ==
    IF idx > Len(lines) THEN acc
    ELSE ParseFrom(ParseLine(acc, schema, idx, lines[idx]), schema, lines, idx + 1)

parse_and_validate(schema, lines) == ParseFrom(InitAcc, schema, lines, 1)

(***************************************************************************)
(* Analyzer Registry Fetcher and the cross-check.                          *)
(***************************************************************************)
\* resp.status of a successful response
HttpOk == 200

\* a token of \b[A-Z]{1,4}\d{2,5}\b; a response body is the list of its words
\* (maximal runs of [A-Za-z0-9_]), and \b falls exactly at the ends of a word
IsRuleToken(w) == \E k \in 1..4 :
    /\ Len(w) >= k + 2 /\ Len(w) <= k + 5
    /\ \A i \in 1..k : IsUpper(w[i])
    /\ \A i \in (k + 1)..Len(w) : IsDigit(w[i])

\* set(re.findall(..., txt))
FindRuleTokens(body) == {body[i] : i \in {j \in DOMAIN body : IsRuleToken(body[j])}}

\* what one URL of the loop of fetch_known_analyzer_ids adds to known_rules,
\* given what urlopen does for it
FetchOne(url, resp) ==
    IF Strip(url) = <<>> THEN {}
    ELSE IF resp.raises THEN {}
    ELSE IF resp.status # HttpOk THEN {}
    ELSE FindRuleTokens(resp.body)

\* the URL contributed nothing because its fetch failed
FetchFailed(url, resp) == Strip(url) # <<>> /\ (resp.raises \/ resp.status # HttpOk)

fetch_known_analyzer_ids(urls, resps) == UNION {FetchOne(urls[i], resps[i]) : i \in DOMAIN urls}

\* code point order of the characters of a rule identifier
CharOrder == <<"0","1","2","3","4","5","6","7","8","9">> \o UpperLetters \o <<"_">> \o LowerLetters

Ord(c) == CHOOSE i \in DOMAIN CharOrder : CharOrder[i] = c

\* a < b for Python strings
StrLess(a, b) ==
    \/ Len(a) < Len(b) /\ SubSeq(b, 1, Len(a)) = a
    \/ \E i \in 1..Len(a) :
         /\ i <= Len(b)
         /\ SubSeq(a, 1, i - 1) = SubSeq(b, 1, i - 1)
         /\ Ord(a[i]) < Ord(b[i])

\* sorted(set of strings)
RECURSIVE Sorted(_)
Sorted(S) ==
    IF S = {} THEN <<>>
    ELSE LET m == CHOOSE x \in S : \A y \in S \ {x} : StrLess(x, y)
         IN  <<m>> \o Sorted(S \ {m})

\* find_line_for_text without re.IGNORECASE
find_line_for_text_CaseSensitive(lines, text) ==
    IF \E i \in DOMAIN lines : Contains(lines[i], text)
    THEN CHOOSE i \in DOMAIN lines :
           /\ Contains(lines[i], text)
           /\ \A j \in 1..(i - 1) : ~Contains(lines[j], text)
    ELSE 0

\* find_line_for_text: 0 stands for None
find_line_for_text(lines, text) ==
    IF \E i \in DOMAIN lines : Contains(Lower(lines[i]), Lower(text))
    THEN CHOOSE i \in DOMAIN lines :
           /\ Contains(Lower(lines[i]), Lower(text))
           /\ \A j \in 1..(i - 1) : ~Contains(Lower(lines[j]), Lower(text))
    ELSE 0

\* f"dotnet_diagnostic.{rule}.severity"
RuleKeyText(rule) == DiagPrefix \o rule \o SeveritySuffix

\* the body of the for loop of check_analyzer_ids for one rule: the warnings
\* it appends
CheckRule(lines, known_rules, rule) ==
    IF rule \notin known_rules
    THEN LET line_num == find_line_for_text(lines, RuleKeyText(rule))
         IN  IF line_num # 0
             THEN <<  <<line_num, Msg("Referenced analyzer rule not found", rule, <<>>)>>  >>
             ELSE <<>>
    ELSE <<>>

RECURSIVE CheckRules(_, _, _, _)
CheckRules(lines, known_rules, rules, i) ==
    IF i > Len(rules) THEN <<>>
    ELSE CheckRule(lines, known_rules, rules[i]) \o CheckRules(lines, known_rules, rules, i + 1)

\* check_analyzer_ids without the early return on an empty known set
check_analyzer_ids_NoGuard(lines, known_rules, used_rules) ==
    CheckRules(lines, known_rules, Sorted(used_rules), 1)

\* the warnings check_analyzer_ids appends
check_analyzer_ids(lines, known_rules, used_rules) ==
    IF known_rules = {} THEN <<>>
    ELSE CheckRules(lines, known_rules, Sorted(used_rules), 1)

(***************************************************************************)
(* Output and exit status.                                                 *)
(***************************************************************************)
\* one printed line
Printed(level, title, line, msg) == [level |-> level, title |-> title, line |-> line, msg |-> msg]

Annotate(level, title, list) ==
    [i \in DOMAIN list |-> Printed(level, title, list[i][1], list[i][2])]

\* emit_annotations with the warnings printed before the validation errors
emit_annotations_WarningsFirst(parse_errors, errors, warnings) ==
    Annotate("error", ".editorconfig parse error", parse_errors)
      \o Annotate("warning", ".editorconfig warning", warnings)
      \o Annotate("error", ".editorconfig error", errors)

\* the lines emit_annotations prints
emit_annotations(parse_errors, errors, warnings) ==
    Annotate("error", ".editorconfig parse error", parse_errors)
      \o Annotate("error", ".editorconfig error", errors)
      \o Annotate("warning", ".editorconfig warning", warnings)

\* get_exit_code failing on warnings whatever fail_on_unknown is
get_exit_code_IgnoresFlag(parse_errors, errors, warnings, fail_on_unknown) ==
    IF parse_errors # <<>> \/ errors # <<>> \/ warnings # <<>> THEN 1 ELSE 0

get_exit_code(parse_errors, errors, warnings, fail_on_unknown) ==
    IF parse_errors # <<>> \/ errors # <<>> THEN 1
    ELSE IF fail_on_unknown /\ warnings # <<>> THEN 1
    ELSE 0

(***************************************************************************)
(* Inputs: the lines a file is made of, the schemas, the URLs and what the *)
(* network answers.                                                        *)
(***************************************************************************)
\* a line of two spaces
LineBlank ==
    <<" "," ">>

\* # dotnet_diagnostic.ca99.severity
LineComment ==
    <<"#"," ","d","o","t","n","e","t","_","d","i","a","g","n","o","s","t",
    "i","c",".","c","a","9","9",".","s","e","v","e","r","i","t","y">>

\* [*]
LineSection ==
    <<"[","*","]">>

\* bad
LineBad ==
    <<"b","a","d">>

\* _=_x, with a space before the =
LineEmptyKey ==
    <<" ","="," ","x">>

\* dotnet_diagnostic.CA10.severity = bogus
LineBogus ==
    <<"d","o","t","n","e","t","_","d","i","a","g","n","o","s","t","i","c",
    ".","C","A","1","0",".","s","e","v","e","r","i","t","y"," ","="," ",
    "b","o","g","u","s">>

\* dotnet_diagnostic.CA10.severity = Warning
LineWarning ==
    <<"d","o","t","n","e","t","_","d","i","a","g","n","o","s","t","i","c",
    ".","C","A","1","0",".","s","e","v","e","r","i","t","y"," ","="," ",
    "W","a","r","n","i","n","g">>

\* Dotnet_Diagnostic.ca99.Severity=error
LineCa99 ==
    <<"D","o","t","n","e","t","_","D","i","a","g","n","o","s","t","i","c",
    ".","c","a","9","9",".","S","e","v","e","r","i","t","y","=","e","r",
    "r","o","r">>

\* dotnet_severity = error
LineMalformed ==
    <<"d","o","t","n","e","t","_","s","e","v","e","r","i","t","y"," ","=",
    " ","e","r","r","o","r">>

\* dotnet_naming_rule.r.severity = error
LineNaming ==
    <<"d","o","t","n","e","t","_","n","a","m","i","n","g","_","r","u","l",
    "e",".","r",".","s","e","v","e","r","i","t","y"," ","="," ","e","r",
    "r","o","r">>

\* foo = bar
LineFoo ==
    <<"f","o","o"," ","="," ","b","a","r">>

InputLines == {LineBlank, LineComment, LineSection, LineBad, LineEmptyKey, LineBogus,
               LineWarning, LineCa99, LineMalformed, LineNaming, LineFoo}

\* every file of at most MaxLines lines
InputFiles == UNION {[1..n -> InputLines] : n \in 0..MaxLines}

\* the severity vocabulary of the schema
SixSeverities ==
    << <<"n","o","n","e">>,
       <<"s","i","l","e","n","t">>,
       <<"s","u","g","g","e","s","t","i","o","n">>,
       <<"w","a","r","n","i","n","g">>,
       <<"e","r","r","o","r">>,
       <<"d","e","f","a","u","l","t">> >>

SeverityRef == [ref |-> <<"#", "definitions", "severity">>]

Literal(text) == [valid |-> TRUE, lit |-> text]

\* a string re.compile rejects, such as "("
BadRegex == [valid |-> FALSE, lit |-> <<>>]

Prop(pattern, frag) == [pattern |-> pattern, schema |-> frag]

\* an invalid pattern, then the analyzer keys, then every dotnet_ key
SchemaFull ==
    [definitions |-> [severity |-> [enum |-> SixSeverities]],
     patternProperties |->
       << Prop(BadRegex, [enum |-> << <<"z">> >>]),
          Prop(Literal(DiagPrefix), SeverityRef),
          Prop(Literal(Dotnet \o <<"_">>), [enum |-> << <<"q">> >>]) >>]

\* no patternProperties at all
SchemaNoPatterns == [definitions |-> [severity |-> [enum |-> SixSeverities]]]

\* no severity definition; a reference to another document; a catch-all
SchemaNoSeverity ==
    [definitions |-> EmptyDict,
     patternProperties |->
       << Prop(Literal(<<"f","o","o">>),
               [ref |-> <<"other.json#", "severity">>, pattern |-> Literal(<<"x">>)]),
          Prop(Literal(DiagPrefix), SeverityRef),
          Prop(Literal(<<>>), [type |-> "string", pattern |-> BadRegex]) >>]

\* one catch-all pattern with an inline enum
SchemaCatchAll ==
    [definitions |-> [severity |-> [enum |-> SixSeverities]],
     patternProperties |-> << Prop(Literal(<<>>), [enum |-> << <<"e","r","r","o","r">> >>]) >>]

InputSchemas == {SchemaFull, SchemaNoPatterns, SchemaNoSeverity, SchemaCatchAll}

\* a URL, and a URL string of one space
Url == <<"u">>

BlankUrl == <<" ">>

InputUrlLists == {[i \in 1..n |-> Url] : n \in 0..MaxUrls} \cup {<<BlankUrl>>}

\* "see CA10 CS0168"
BodyRules == << <<"s","e","e">>, <<"C","A","1","0">>, <<"C","S","0","1","6","8">> >>

\* "ca99 X1": nothing that looks like a rule identifier
BodyNoRules == << <<"c","a","9","9">>, <<"X","1">> >>

\* what urlopen can do for one URL: raise, answer 500, answer 200 with a body
Responses ==
    {[raises |-> TRUE, status |-> 0, body |-> <<>>],
     [raises |-> FALSE, status |-> 500, body |-> <<>>],
     [raises |-> FALSE, status |-> HttpOk, body |-> BodyRules],
     [raises |-> FALSE, status |-> HttpOk, body |-> BodyNoRules]}

SchemaPath == <<"schema.json">>

ConfigPath == <<".editorconfig">>

\* the inputs of a run whose schema and file both load: every schema with
\* every file, and every list of URLs with every file
GoodInputs ==
    [schema_file : [status : {"ok"}, content : InputSchemas],
     config_file : [exists : {TRUE}, content : InputFiles],
     urls : {<<Url>>},
     flag : BOOLEAN]
    \cup
    [schema_file : [status : {"ok"}, content : {SchemaFull}],
     config_file : [exists : {TRUE}, content : InputFiles],
     urls : InputUrlLists,
     flag : BOOLEAN]

\* the inputs of a run that lacks its schema or its file
BrokenInputs ==
    [schema_file : [status : {"missing", "malformed"}, content : {SchemaFull}],
     config_file : [exists : BOOLEAN, content : {<<LineBogus>>}],
     urls : {<<Url>>},
     flag : BOOLEAN]
    \cup
    [schema_file : [status : {"ok"}, content : {SchemaFull}],
     config_file : [exists : {FALSE}, content : {<<LineBogus>>}],
     urls : {<<Url>>},
     flag : BOOLEAN]

(***************************************************************************)
(* The state of a run.                                                     *)
(***************************************************************************)
VARIABLES
    pc,               \* the position of run()
    schema_file,      \* the file at schema_path: its status and, if it parses, its JSON
    config_file,      \* the file at editorconfig_path: whether it exists, its lines
    known_rules_urls, \* self.known_rules_urls
    fail_on_unknown,  \* self.fail_on_unknown
    schema,           \* self.schema
    lines,            \* self.lines
    parse_errors,     \* self.parse_errors
    errors,           \* self.errors
    warnings,         \* self.warnings
    used_rules,       \* self.used_rules
    known_rules,      \* self.known_rules
    current_section,  \* the local current_section when parse_and_validate returns
    entries,          \* history: the calls of validate_key_value
    fetch_failures,   \* history: the number of URLs whose fetch failed
    out,              \* stdout
    exit_code         \* the exit status of the process, -1 while it runs

vars == <<pc, schema_file, config_file, known_rules_urls, fail_on_unknown, schema, lines,
          parse_errors, errors, warnings, used_rules, known_rules, current_section,
          entries, fetch_failures, out, exit_code>>

env == <<schema_file, config_file, known_rules_urls, fail_on_unknown>>

lists == <<parse_errors, errors, warnings, used_rules, current_section, entries>>

\* __init__
Init ==
    /\ pc = "Init"
    /\ \E in \in GoodInputs \cup BrokenInputs :
         /\ schema_file = in.schema_file
         /\ config_file = in.config_file
         /\ known_rules_urls = in.urls
         /\ fail_on_unknown = in.flag
    /\ schema = EmptyDict
    /\ lines = <<>>
    /\ parse_errors = <<>>
    /\ errors = <<>>
    /\ warnings = <<>>
    /\ used_rules = {}
    /\ known_rules = {}
    /\ current_section = NoSection
    /\ entries = <<>>
    /\ fetch_failures = 0
    /\ out = <<>>
    /\ exit_code = -1

\* print(...) of a precondition failure
FatalLine(path, what) ==
    [level |-> "error", file |-> path, title |-> "", line |-> 0, msg |-> Msg(what, path, <<>>)]

\* print(...) of one annotation of emit_annotations
AnnotationLine(p) ==
    [level |-> p.level, file |-> ConfigPath, title |-> p.title, line |-> p.line, msg |-> p.msg]

\* any other print(...)
PlainLine(level, what) ==
    [level |-> level, file |-> <<>>, title |-> "", line |-> 0, msg |-> Msg(what, <<>>, <<>>)]

\* load_schema, the file opens and parses
LoadSchema ==
    /\ pc = "Init"
    /\ schema_file.status = "ok"
    /\ schema' = schema_file.content
    /\ pc' = "SchemaLoaded"
    /\ UNCHANGED <<env, lines, lists, known_rules, fetch_failures, out, exit_code>>

\* LoadSchemaFails without the sys.exit(1): the run goes on with an empty schema
LoadSchemaFails_Continues ==
    /\ pc = "Init"
    /\ schema_file.status # "ok"
    /\ out' = Append(out, FatalLine(SchemaPath, "Schema file not found"))
    /\ pc' = "SchemaLoaded"
    /\ UNCHANGED <<env, schema, lines, lists, known_rules, fetch_failures, exit_code>>

\* load_schema, FileNotFoundError or json.JSONDecodeError: print and sys.exit(1)
LoadSchemaFails ==
    /\ pc = "Init"
    /\ schema_file.status # "ok"
    /\ out' = Append(out, FatalLine(SchemaPath,
                IF schema_file.status = "missing" THEN "Schema file not found"
                ELSE "Invalid JSON schema"))
    /\ exit_code' = 1
    /\ pc' = "Exited"
    /\ UNCHANGED <<env, schema, lines, lists, known_rules, fetch_failures>>

\* load_editorconfig, the file opens
LoadEditorconfig ==
    /\ pc = "SchemaLoaded"
    /\ config_file.exists
    /\ lines' = config_file.content
    /\ pc' = "FileLoaded"
    /\ UNCHANGED <<env, schema, lists, known_rules, fetch_failures, out, exit_code>>

\* load_editorconfig, FileNotFoundError: print and sys.exit(1)
LoadEditorconfigFails ==
    /\ pc = "SchemaLoaded"
    /\ ~config_file.exists
    /\ out' = Append(out, FatalLine(ConfigPath, "File not found"))
    /\ exit_code' = 1
    /\ pc' = "Exited"
    /\ UNCHANGED <<env, schema, lines, lists, known_rules, fetch_failures>>

\* parse_and_validate
ParseAndValidate ==
    /\ pc = "FileLoaded"
    /\ \E acc \in {parse_and_validate(schema, lines)} :
           /\ parse_errors' = acc.parse_errors
           /\ errors' = acc.errors
           /\ warnings' = acc.warnings
           /\ used_rules' = acc.used_rules
           /\ current_section' = acc.current_section
           /\ entries' = acc.entries
    /\ pc' = "Validated"
    /\ UNCHANGED <<env, schema, lines, known_rules, fetch_failures, out, exit_code>>

\* fetch_known_analyzer_ids, entered only if self.used_rules
FetchKnownAnalyzerIds ==
    /\ pc = "Validated"
    /\ used_rules # {}
    /\ \E resps \in [DOMAIN known_rules_urls -> Responses] :
         /\ known_rules' = known_rules \cup fetch_known_analyzer_ids(known_rules_urls, resps)
         /\ fetch_failures' = Cardinality({i \in DOMAIN known_rules_urls :
                                             FetchFailed(known_rules_urls[i], resps[i])})
    /\ pc' = "Fetched"
    /\ UNCHANGED <<env, schema, lines, lists, out, exit_code>>

\* check_analyzer_ids
CheckAnalyzerIds ==
    /\ pc = "Fetched"
    /\ warnings' = warnings \o check_analyzer_ids(lines, known_rules, used_rules)
    /\ out' = IF known_rules = {}
              THEN Append(out, PlainLine("notice", "existence checks skipped"))
              ELSE out
    /\ pc' = "RulesFetched"
    /\ UNCHANGED <<env, schema, lines, parse_errors, errors, used_rules, current_section,
                   entries, known_rules, fetch_failures, exit_code>>

\* emit_annotations
EmitAnnotations ==
    /\ \/ pc = "Validated" /\ used_rules = {}
       \/ pc = "RulesFetched"
    /\ \E printed \in {emit_annotations(parse_errors, errors, warnings)} :
           out' = out \o [i \in DOMAIN printed |-> AnnotationLine(printed[i])]
    /\ pc' = "Reported"
    /\ UNCHANGED <<env, schema, lines, lists, known_rules, fetch_failures, exit_code>>

\* the rest of run() and sys.exit(exit_code) of main
Finish ==
    /\ pc = "Reported"
    /\ \E code \in {get_exit_code(parse_errors, errors, warnings, fail_on_unknown)} :
           /\ exit_code' = code
           /\ out' = Append(out, PlainLine("summary",
                        IF code = 0 THEN "Validator completed: no fatal issues found."
                        ELSE "Validator completed with errors."))
    /\ pc' = "Done"
    /\ UNCHANGED <<env, schema, lines, lists, known_rules, fetch_failures>>

Next ==
    \/ LoadSchema
    \/ LoadSchemaFails
    \/ LoadEditorconfig
    \/ LoadEditorconfigFails
    \/ ParseAndValidate
    \/ FetchKnownAnalyzerIds
    \/ CheckAnalyzerIds
    \/ EmitAnnotations
    \/ Finish

Spec == Init /\ [][Next]_vars

(***************************************************************************)
(* Properties.                                                             *)
(***************************************************************************)
\* the positions of run() after parse_and_validate has returned
AfterValidation == {"Validated", "Fetched", "RulesFetched", "Reported", "Done"}

\* the positions of run() after the cross-check, if any, is over
AfterCrossCheck == {"RulesFetched", "Reported", "Done"}

\* schema['definitions']['severity']['enum'], <<>> where the schema has none
ListedSeverities ==
    Get(Get(Get(schema, "definitions", EmptyDict), "severity", EmptyDict), "enum", <<>>)

\* v.lower() is one of the listed severities, lower-cased
IsListedSeverity(list, v) == \E i \in DOMAIN list : Lower(list[i]) = Lower(v)

\* the indices of the entries of a list of diagnostics that carry line n
OnLine(list, n) == {k \in DOMAIN list : list[k][1] = n}

\* the errors of line n the schema match produced
SchemaErrorsOnLine(n) == {k \in OnLine(errors, n) : errors[k][2].kind # "Invalid severity"}

\* the errors of line n the direct severity check produced
SeverityErrorsOnLine(n) == {k \in OnLine(errors, n) : errors[k][2].kind = "Invalid severity"}

\* C1: once the run is over, the exit status is 1 if and only if there is a
\* parse error, or a validation error, or a warning while fail_on_unknown is
\* set; it is 0 in every other case.
C1_ExitStatus ==
    pc = "Done" =>
      /\ exit_code \in {0, 1}
      /\ exit_code = 1 <=>
           \/ parse_errors # <<>>
           \/ errors # <<>>
           \/ warnings # <<>> /\ fail_on_unknown

\* C1 witness: a finished run that fails only because its warnings escalate
C1_Witness ==
    /\ pc = "Done" /\ exit_code = 1
    /\ parse_errors = <<>> /\ errors = <<>> /\ warnings # <<>> /\ fail_on_unknown

\* the file's only entry is dotnet_diagnostic.<RULEID>.severity = <v>, the
\* schema lists severities and <v> is not one of them
OnlyBadSeverity ==
    /\ pc \in AfterValidation
    /\ Len(entries) = 1
    /\ DiagSevMatch(entries[1].key)
    /\ ListedSeverities # <<>>
    /\ ~IsListedSeverity(ListedSeverities, entries[1].val)

\* C2 as claimed: such a line gets exactly one error diagnostic, whatever
\* the schema's patternProperties, and the exit status is 1.
C2_ExactlyOneError ==
    OnlyBadSeverity =>
      /\ Cardinality(OnLine(errors, entries[1].line)) = 1
      /\ pc = "Done" => exit_code = 1

\* C2 amended: such a line gets exactly one error from the direct severity
\* check and at most one more from the schema match, that is one or two
\* errors, no error lies on another line, and the exit status is 1.
C2_OneOrTwoErrors ==
    OnlyBadSeverity =>
      /\ Cardinality(SeverityErrorsOnLine(entries[1].line)) = 1
      /\ Cardinality(SchemaErrorsOnLine(entries[1].line)) \in {0, 1}
      /\ Len(errors) = Cardinality(OnLine(errors, entries[1].line))
      /\ pc = "Done" => exit_code = 1

\* C2 witness: a finished run in which such a line has got two errors
C2_Witness ==
    /\ OnlyBadSeverity /\ pc = "Done" /\ exit_code = 1
    /\ Cardinality(OnLine(errors, entries[1].line)) = 2

\* a non-blank, non-comment, non-section line without "="
IsBadLine(raw) ==
    /\ Strip(raw) # <<>>
    /\ ~CommentMatch(Strip(raw))
    /\ ~SectionMatch(raw)
    /\ \A i \in DOMAIN raw : raw[i] # "="

\* the file with its bad lines emptied
WithoutBadLines(file) == [i \in DOMAIN file |-> IF IsBadLine(file[i]) THEN <<>> ELSE file[i]]

\* C3: every bad line adds exactly one parse error carrying its 1-based
\* number, and the pass leaves the entries, the section, the errors, the
\* warnings and the used rules it would leave were the bad lines empty.
C3_ParseErrorIsolation ==
    pc = "Validated" =>
      /\ \A i \in DOMAIN lines :
           IsBadLine(lines[i]) => Cardinality(OnLine(parse_errors, i)) = 1
      /\ \E ref \in {parse_and_validate(schema, WithoutBadLines(lines))} :
           /\ entries = ref.entries
           /\ current_section = ref.current_section
           /\ errors = ref.errors
           /\ warnings = ref.warnings
           /\ used_rules = ref.used_rules

\* C3 witness: line 1 is bad, line 2 is an entry that got an error
C3_Witness ==
    /\ pc = "Validated"
    /\ Len(lines) >= 2 /\ IsBadLine(lines[1])
    /\ Len(parse_errors) = 1 /\ parse_errors[1][1] = 1
    /\ \E k \in DOMAIN entries : entries[k].line = 2
    /\ OnLine(errors, 2) # {}

\* C4: failed fetches never end the run, and when the known set is empty
\* after the fetch the lists are those validation left and the exit status
\* is the one they give, whatever fail_on_unknown is.
C4_NetworkFailuresNonFatal ==
    /\ fetch_failures > 0 => pc \in {"Fetched", "RulesFetched", "Reported", "Done"}
    /\ (pc = "Done" /\ used_rules # {} /\ known_rules = {}) =>
         \E ref \in {parse_and_validate(schema, lines)} :
           /\ parse_errors = ref.parse_errors
           /\ errors = ref.errors
           /\ warnings = ref.warnings
           /\ exit_code = IF \/ ref.parse_errors # <<>>
                             \/ ref.errors # <<>>
                             \/ ref.warnings # <<>> /\ fail_on_unknown
                          THEN 1 ELSE 0

\* C4 witness: every fetch failed, warnings escalate, and the run passes
C4_Witness ==
    /\ pc = "Done" /\ exit_code = 0 /\ fail_on_unknown
    /\ used_rules # {} /\ known_rules = {}
    /\ fetch_failures >= 1 /\ fetch_failures = Len(known_rules_urls)

\* a printed line is an annotation of emit_annotations
IsAnnotation(p) == p.title # ""

\* the list is in non-decreasing order of line number
NonDecreasing(list) == \A i, j \in DOMAIN list : i <= j => list[i][1] <= list[j][1]

\* the printed lines from position base + 1 on are the entries of list, in order
PrintedAs(ann, base, list, level, title) ==
    \A i \in DOMAIN list :
      /\ ann[base + i].level = level
      /\ ann[base + i].title = title
      /\ ann[base + i].line = list[i][1]
      /\ ann[base + i].msg = list[i][2]

\* C5: no annotation is printed before emit_annotations runs, which is after
\* validation and the cross-check; the annotations printed are every parse
\* error, then every validation error, then every warning, each list in its
\* own order, parse errors and validation errors by non-decreasing line.
C5_DiagnosticOrder ==
    /\ pc \notin {"Reported", "Done"} =>
         \A i \in DOMAIN out : ~IsAnnotation(out[i])
    /\ pc \in {"Reported", "Done"} =>
         \E ann \in {SelectSeq(out, IsAnnotation)} :
           /\ Len(ann) = Len(parse_errors) + Len(errors) + Len(warnings)
           /\ PrintedAs(ann, 0, parse_errors, "error", ".editorconfig parse error")
           /\ PrintedAs(ann, Len(parse_errors), errors, "error", ".editorconfig error")
           /\ PrintedAs(ann, Len(parse_errors) + Len(errors), warnings,
                        "warning", ".editorconfig warning")
           /\ NonDecreasing(parse_errors)
           /\ NonDecreasing(errors)

\* C5 witness: a finished run that printed a parse error, an error and a warning
C5_Witness ==
    /\ pc = "Done"
    /\ parse_errors # <<>> /\ errors # <<>> /\ warnings # <<>>

\* the warnings of the cross-check about a rule
CrossWarnings(rule) ==
    {k \in DOMAIN warnings :
       /\ warnings[k][2].kind = "Referenced analyzer rule not found"
       /\ warnings[k][2].key = rule}

\* the lines of the file that contain the text, letter case ignored
LinesContaining(text) == {i \in DOMAIN lines : Contains(Lower(lines[i]), Lower(text))}

\* the first of them, 1 if there is none
FirstLineOrOne(text) ==
    IF LinesContaining(text) = {} THEN 1
    ELSE CHOOSE i \in LinesContaining(text) : \A j \in LinesContaining(text) : i <= j

\* C6: with a non-empty known set, every used rule outside it has exactly one
\* cross-check warning, at the first line that contains
\* dotnet_diagnostic.<RULE>.severity whatever the letter case (line 1 if no
\* line does), and no used rule inside it has one.
C6_CrossCheck ==
    (pc \in AfterCrossCheck /\ known_rules # {}) =>
      \A rule \in used_rules :
        IF rule \in known_rules THEN CrossWarnings(rule) = {}
        ELSE /\ Cardinality(CrossWarnings(rule)) = 1
             /\ \A k \in CrossWarnings(rule) :
                  warnings[k][1] = FirstLineOrOne(RuleKeyText(rule))

\* C6 witness: one used rule is known, another is not and has its warning
C6_Witness ==
    /\ pc = "Done" /\ known_rules # {}
    /\ \E r \in used_rules : r \in known_rules
    /\ \E r \in used_rules : r \notin known_rules /\ CrossWarnings(r) # {}

\* the schema or the file of the run is missing or broken
PreconditionFails == schema_file.status # "ok" \/ ~config_file.exists

\* the path the failure is about: the schema is loaded first
FailingPath == IF schema_file.status # "ok" THEN SchemaPath ELSE ConfigPath

\* C7: a run whose schema is missing or malformed, or whose file is missing,
\* never gets past loading; it prints one error naming the path and exits
\* with status 1 at once: nothing is parsed, fetched or printed besides.
C7_FatalPreconditions ==
    PreconditionFails =>
      /\ pc \in {"Init", "SchemaLoaded", "Exited"}
      /\ schema_file.status # "ok" => pc # "SchemaLoaded"
      /\ lines = <<>> /\ entries = <<>> /\ parse_errors = <<>>
      /\ errors = <<>> /\ warnings = <<>>
      /\ known_rules = {} /\ fetch_failures = 0
      /\ pc # "Exited" => out = <<>> /\ exit_code = -1
      /\ pc = "Exited" =>
           /\ exit_code = 1
           /\ Len(out) = 1
           /\ out[1].level = "error"
           /\ out[1].file = FailingPath
           /\ ~ENABLED Next

\* C7 witness: the run has exited on a schema that is not valid JSON
C7_Witness == pc = "Exited" /\ schema_file.status = "malformed" /\ Len(out) = 1

\* C8 as claimed: against a fragment that references the severity definition
\* (with the six severities), a value is accepted if and only if its
\* lower-case form is one of the six.
C8_SeverityRefIgnoresCase ==
    (pc \in AfterValidation /\ ListedSeverities = SixSeverities) =>
      \A k \in DOMAIN entries :
        validate_value_against_schema(schema, entries[k].val, SeverityRef)
          <=> IsListedSeverity(SixSeverities, entries[k].val)

\* C9 as claimed: every entry handed to validate_key_value has a key that is
\* not empty.
C9_KeysNonEmpty == \A k \in DOMAIN entries : entries[k].key # <<>>

\* the patterns of the schema, in the order of the mapping
PatternProps == Get(schema, "patternProperties", <<>>)

\* the patterns that compile and match the key from its start
Hits(key) ==
    {i \in DOMAIN PatternProps :
       ReCompiles(PatternProps[i].pattern) /\ ReMatch(PatternProps[i].pattern, key)}

FirstHit(key) == CHOOSE i \in Hits(key) : \A j \in Hits(key) : i <= j

\* C10: the schema match of an entry adds no error when no compilable
\* pattern matches its key, and otherwise one error exactly when the
\* fragment of the first such pattern rejects the value; patterns after the
\* first match add nothing.
C10_FirstMatch ==
    pc \in AfterValidation =>
      \A k \in DOMAIN entries :
        Cardinality(SchemaErrorsOnLine(entries[k].line)) =
          IF Hits(entries[k].key) = {} THEN 0
          ELSE IF validate_value_against_schema(schema, entries[k].val,
                    PatternProps[FirstHit(entries[k].key)].schema)
               THEN 0 ELSE 1

\* C10 witness: an invalid pattern is skipped, two later patterns match the
\* key, and the entry has the one error of the first of them
C10_Witness ==
    /\ pc = "Validated"
    /\ \E k \in DOMAIN entries :
         /\ Cardinality(Hits(entries[k].key)) >= 2
         /\ \E i \in DOMAIN PatternProps :
              ~ReCompiles(PatternProps[i].pattern) /\ i < FirstHit(entries[k].key)
         /\ Cardinality(SchemaErrorsOnLine(entries[k].line)) = 1

====
